---------------------------- MODULE Spec2Model ----------------------------
(***************************************************************************)
(* A model of the two one-shot scripts of the repository:                  *)
(*                                                                         *)
(*   generate_message.py  (Message Generator): load a profile document,    *)
(*       call the generation endpoint twice (extract, compose), print the  *)
(*       message;                                                          *)
(*   generate_graphs.py   (Report Renderer): render a per-run chart from   *)
(*       report.csv and a historical chart from master_report.csv.         *)
(*                                                                         *)
(* One behaviour of the model is one process run of one of the scripts.    *)
(* Texts are sequences of tokens; a generated text is a sequence of        *)
(* one-character tokens, so that Len is its number of characters.          *)
(***************************************************************************)
EXTENDS Integers, Sequences, FiniteSets, TLC

VARIABLES
    prog,               \* which script this process runs
    argv,               \* sys.argv, argv[1] is the script's name
    pc,                 \* position of the process in the script
    exit_code,          \* the process's exit code, NoExit while it runs
    stdout,             \* tokens written to standard output
    stderr,             \* tokens written to the error stream
    escaped,            \* the exception that left the script uncaught, or NoExc
    \* ---- generate_message.py
    fs,                 \* the file system: path -> missing / unreadable / content
    profile_html_path,
    person_name,
    html_content,
    extracted_info,
    connection_message,
    requests,           \* the payloads posted to the endpoint, in order
    responses,          \* the endpoint's replies received, in order
    ollama_result,      \* what the last call_ollama did: returned value or raised exception
    \* ---- generate_graphs.py
    current_run_df,     \* what pd.read_csv found at report.csv (Unread before)
    master_df,          \* what pd.read_csv found at master_report.csv (Unread before)
    values,             \* the per-run phase's local list `values`
    filtered_labels,
    filtered_values,
    per_run_chart,      \* connections_per_run.png: NoChart or its content
    historical_chart    \* historical_connections.png: NoChart or its content

mgvars == <<fs, profile_html_path, person_name, html_content, extracted_info,
            connection_message, requests, responses, ollama_result>>
rrvars == <<current_run_df, master_df, values, filtered_labels, filtered_values,
            per_run_chart, historical_chart>>
vars == <<prog, argv, pc, exit_code, stdout, stderr, escaped, mgvars, rrvars>>

\* ------------------------------------------------------------------ bounds

\* The counts of a report row range over 0..MaxCount.
MaxCount == 2
\* The master ledger holds at most MaxRows rows.
MaxRows == 1
\* A short generated text has at most MaxShort characters.
MaxShort == 1

\* The character limit the compose instruction states for the message.
MessageLimit == 200

\* ------------------------------------------------------------ Python values

\* exit_code while the process runs: no exit code of the scripts.
NoExit == 0 - 1
NL == "\n"
None == [t |-> "None"]
Str(s) == [t |-> "str", s |-> s]
Unset == [t |-> "unset"]
NoExc == [cls |-> "none", msg |-> <<>>, code |-> 0]
Exc(cls, msg) == [cls |-> cls, msg |-> msg, code |-> 0]
\* sys.exit(code) raises SystemExit carrying the code.
SysExit(code) == [cls |-> "SystemExit", msg |-> <<>>, code |-> code]

\* n copies of the character "x"
Rep(n) == [i \in 1..n |-> "x"]

\* bool(v) of a value of the model: None and the empty string are false.
Truthy(v) == v.t = "str" /\ v.s # <<>>

\* str(v), as an f-string formats a value.
PyStr(v) == IF v.t = "str" THEN v.s ELSE <<"None">>

\* print(text, file=stream): the text, then a newline.
PrintTo(stream, text) == stream \o text \o <<NL>>

\* The classes an exception class is an instance of (itself and its bases).
Mro(cls) ==
    CASE cls = "FileNotFoundError"       -> {"FileNotFoundError", "OSError", "Exception", "BaseException"}
      [] cls = "PermissionError"         -> {"PermissionError", "OSError", "Exception", "BaseException"}
      [] cls = "Timeout"                 -> {"Timeout", "RequestException", "OSError", "Exception", "BaseException"}
      [] cls = "ConnectionError"         -> {"ConnectionError", "RequestException", "OSError", "Exception", "BaseException"}
      [] cls = "HTTPError"               -> {"HTTPError", "RequestException", "OSError", "Exception", "BaseException"}
      [] cls = "requests.JSONDecodeError" -> {"requests.JSONDecodeError", "RequestException", "json.JSONDecodeError",
                                              "OSError", "ValueError", "Exception", "BaseException"}
      [] cls = "json.JSONDecodeError"    -> {"json.JSONDecodeError", "ValueError", "Exception", "BaseException"}
      [] cls = "KeyError"                -> {"KeyError", "LookupError", "Exception", "BaseException"}
      [] cls = "IndexError"              -> {"IndexError", "LookupError", "Exception", "BaseException"}
      [] cls = "TypeError"               -> {"TypeError", "Exception", "BaseException"}
      [] cls = "ValueError"              -> {"ValueError", "Exception", "BaseException"}
      [] cls = "EmptyDataError"          -> {"EmptyDataError", "ValueError", "Exception", "BaseException"}
      [] cls = "SystemExit"              -> {"SystemExit", "BaseException"}
      [] OTHER                           -> {cls}

IsInstance(e, cls) == cls \in Mro(e.cls)

\* ------------------------------------------------------ generation endpoint

Paths == {"a.html", "b.html"}
Names == {"Jane Doe"}
ShortTexts == {Rep(n) : n \in 0..MaxShort}
\* The texts the endpoint generates: short ones, and ones at and past the limit.
GeneratedTexts == ShortTexts \cup {Rep(MessageLimit), Rep(MessageLimit + 1)}
FileContents == ShortTexts

\* The bodies of an HTTP reply: not JSON, JSON that is no object, an object
\* without the 'response' field, an object whose 'response' is null or a text.
Bodies ==
    {[shape |-> "not_json"], [shape |-> "array"],
     [shape |-> "object", obj |-> [error |-> Str(<<"model not found">>)]],
     [shape |-> "object", obj |-> [response |-> None]]}
    \cup {[shape |-> "object", obj |-> [response |-> Str(t)]] : t \in GeneratedTexts}

Replies ==
    {[kind |-> "timeout"], [kind |-> "connection_error"]}
    \cup {[kind |-> "http", status |-> 500, body |-> [shape |-> "not_json"]]}
    \cup {[kind |-> "http", status |-> 200, body |-> b] : b \in Bodies}

\* The payload call_ollama posts.
Payload(prompt, system_message) ==
    IF system_message # <<>>
    THEN [model |-> "llama3.1:8b-instruct-q4_K_S", prompt |-> prompt, stream |-> FALSE,
          system |-> system_message]
    ELSE [model |-> "llama3.1:8b-instruct-q4_K_S", prompt |-> prompt, stream |-> FALSE]

\* The body of call_ollama's try block on a reply: the value it reaches `return`
\* with, or the exception raised on the way.  A body that is not JSON raises
\* the JSON decode error of the installed requests (either class).
OllamaTry(reply) ==
    IF reply.kind = "timeout" THEN {[ret |-> None, exc |-> Exc("Timeout", <<"timed out">>)]}
    ELSE IF reply.kind = "connection_error"
    THEN {[ret |-> None, exc |-> Exc("ConnectionError", <<"connection refused">>)]}
    ELSE IF reply.status >= 400 /\ reply.status < 600
    THEN {[ret |-> None, exc |-> Exc("HTTPError", <<"server error">>)]}
    ELSE IF reply.body.shape = "not_json"
    THEN {[ret |-> None, exc |-> Exc(c, <<"Expecting value">>)] :
             c \in {"requests.JSONDecodeError", "json.JSONDecodeError"}}
    ELSE IF reply.body.shape # "object"
    THEN {[ret |-> None, exc |-> Exc("TypeError", <<"list indices must be integers or slices, not str">>)]}
    ELSE IF "response" \notin DOMAIN reply.body.obj
    THEN {[ret |-> None, exc |-> Exc("KeyError", <<"'response'">>)]}
    ELSE {[ret |-> reply.body.obj.response, exc |-> NoExc]}

\* call_ollama's except clauses, tried in order; an exception none of them
\* matches leaves call_ollama.
OllamaExcept(r) ==
    IF r.exc = NoExc THEN [ret |-> r.ret, exc |-> NoExc, err |-> <<>>]
    ELSE IF IsInstance(r.exc, "Timeout")
    THEN [ret |-> None, exc |-> NoExc,
          err |-> PrintTo(<<>>, <<"Error: Ollama API call timed out after 600 seconds.">>)]
    ELSE IF IsInstance(r.exc, "RequestException")
    THEN [ret |-> None, exc |-> NoExc,
          err |-> PrintTo(<<>>, <<"Error calling Ollama API: ">> \o r.exc.msg)]
    ELSE IF IsInstance(r.exc, "json.JSONDecodeError")
    THEN [ret |-> None, exc |-> NoExc,
          err |-> PrintTo(<<>>, <<"Error: Could not decode JSON response from Ollama API.">>)]
    ELSE IF IsInstance(r.exc, "KeyError")
    THEN [ret |-> None, exc |-> NoExc,
          err |-> PrintTo(<<>>, <<"Error: 'response' key not found in Ollama API response.">>)]
    ELSE [ret |-> None, exc |-> r.exc, err |-> <<>>]

\* call_ollama on a reply: the outcomes it can have.
call_ollama(reply) == {OllamaExcept(r) : r \in OllamaTry(reply)}

extraction_prompt(html) ==
    <<"Extract professional information from the following LinkedIn profile HTML:", NL, NL>> \o html
extraction_system_message == <<"You are an AI assistant that extracts key professional information">>
message_prompt(info, name) ==
    <<"Generate a LinkedIn connection message for ", name,
      " based on their profile summary:", NL, NL>> \o info
message_system_message(name) ==
    <<"You are an AI assistant that generates a polite and concise LinkedIn connection request message",
      name, "Ensure the message is under 200 characters">>

\* MainExcept with the `except Exception` clause ending without sys.exit(1).
MainExceptExitZero(e) ==
    IF IsInstance(e, "FileNotFoundError")
    THEN [err |-> PrintTo(<<>>, <<"Error: ">> \o e.msg), code |-> 1, escaped |-> NoExc]
    ELSE IF IsInstance(e, "Exception")
    THEN [err |-> PrintTo(<<>>, <<"An unexpected error occurred: ">> \o e.msg), code |-> 0,
          escaped |-> NoExc]
    ELSE IF e.cls = "SystemExit"
    THEN [err |-> <<>>, code |-> e.code, escaped |-> NoExc]
    ELSE [err |-> <<>>, code |-> 1, escaped |-> e]

\* MainExcept with the FileNotFoundError clause printing a fixed line instead
\* of the exception's message.
MainExceptNoDetail(e) ==
    IF IsInstance(e, "FileNotFoundError")
    THEN [err |-> PrintTo(<<>>, <<"Error: HTML file not found">>), code |-> 1, escaped |-> NoExc]
    ELSE IF IsInstance(e, "Exception")
    THEN [err |-> PrintTo(<<>>, <<"An unexpected error occurred: ">> \o e.msg), code |-> 1,
          escaped |-> NoExc]
    ELSE IF e.cls = "SystemExit"
    THEN [err |-> <<>>, code |-> e.code, escaped |-> NoExc]
    ELSE [err |-> <<>>, code |-> 1, escaped |-> e]

\* The except clauses of the script's try block, tried in order: what is written
\* to the error stream, the exit code, and the exception that leaves uncaught.
\* sys.exit raises SystemExit, which is no Exception and passes both clauses.
MainExcept(e) ==
    IF IsInstance(e, "FileNotFoundError")
    THEN [err |-> PrintTo(<<>>, <<"Error: ">> \o e.msg), code |-> 1, escaped |-> NoExc]
    ELSE IF IsInstance(e, "Exception")
    THEN [err |-> PrintTo(<<>>, <<"An unexpected error occurred: ">> \o e.msg), code |-> 1,
          escaped |-> NoExc]
    ELSE IF e.cls = "SystemExit"
    THEN [err |-> <<>>, code |-> e.code, escaped |-> NoExc]
    ELSE [err |-> <<>>, code |-> 1, escaped |-> e]

\* The process ends in the try block with exception e raised, after writing
\* `err` to the error stream.
RaiseInMain(err, e) ==
    LET h == MainExcept(e) IN
    /\ stderr' = stderr \o err \o h.err
    /\ exit_code' = h.code
    /\ escaped' = h.escaped
    /\ pc' = "done"

\* ------------------------------------------------------ generate_message.py

FileStates ==
    {[state |-> "missing"], [state |-> "unreadable"]}
    \cup {[state |-> "file", content |-> t] : t \in FileContents}

MessageArgvs ==
    {<<"generate_message.py">>}
    \cup {<<"generate_message.py", p>> : p \in Paths}
    \cup {<<"generate_message.py", p, n>> : p \in Paths, n \in Names}
    \cup {<<"generate_message.py", p, n, "extra">> : p \in Paths, n \in Names}

\* os.path.exists(path)
Exists(path) == fs[path].state # "missing"

\* Lines 93-98: the argument check.
MainArgs ==
    /\ prog = "generate_message" /\ pc = "start"
    /\ IF Len(argv) < 3
       THEN /\ stderr' = PrintTo(stderr,
                      <<"Usage: python generate_message.py <profile_html_path> <person_name>">>)
            /\ exit_code' = 1
            /\ pc' = "done"
            /\ UNCHANGED <<profile_html_path, person_name>>
       ELSE /\ profile_html_path' = argv[2]
            /\ person_name' = argv[3]
            /\ pc' = "load"
            /\ UNCHANGED <<stderr, exit_code>>
    /\ UNCHANGED <<prog, argv, stdout, escaped, fs, html_content, extracted_info,
                   connection_message, requests, responses, ollama_result, rrvars>>

\* Lines 101-105: the Load stage.
Load ==
    /\ prog = "generate_message" /\ pc = "load"
    /\ IF ~Exists(profile_html_path)
       THEN /\ RaiseInMain(<<>>, Exc("FileNotFoundError",
                                      <<"HTML file not found at ", profile_html_path>>))
            /\ UNCHANGED html_content
       ELSE IF fs[profile_html_path].state = "unreadable"
       THEN /\ RaiseInMain(<<>>, Exc("PermissionError",
                                      <<"[Errno 13] Permission denied: ", profile_html_path>>))
            /\ UNCHANGED html_content
       ELSE /\ html_content' = Str(fs[profile_html_path].content)
            /\ pc' = "extract"
            /\ UNCHANGED <<stderr, exit_code, escaped>>
    /\ UNCHANGED <<prog, argv, stdout, fs, profile_html_path, person_name, extracted_info,
                   connection_message, requests, responses, ollama_result, rrvars>>

\* Lines 108, 69-70, 15-31: extract_profile_info posts the extraction request.
ExtractCall ==
    /\ prog = "generate_message" /\ pc = "extract"
    /\ requests' = Append(requests,
                          Payload(extraction_prompt(PyStr(html_content)), extraction_system_message))
    /\ pc' = "extract_wait"
    /\ UNCHANGED <<prog, argv, exit_code, stdout, stderr, escaped, fs, profile_html_path,
                   person_name, html_content, extracted_info, connection_message, responses,
                   ollama_result, rrvars>>

\* Lines 31-45, 108: the extraction call ends, by a reply or by a failure.
ExtractReturn ==
    /\ prog = "generate_message" /\ pc = "extract_wait"
    /\ \E reply \in Replies : \E o \in call_ollama(reply) :
         /\ responses' = Append(responses, reply)
         /\ ollama_result' = [ret |-> o.ret, exc |-> o.exc]
         /\ IF o.exc # NoExc
            THEN /\ RaiseInMain(o.err, o.exc)
                 /\ UNCHANGED extracted_info
            ELSE /\ extracted_info' = o.ret
                 /\ stderr' = stderr \o o.err
                 /\ pc' = "extract_check"
                 /\ UNCHANGED <<exit_code, escaped>>
    /\ UNCHANGED <<prog, argv, stdout, fs, profile_html_path, person_name, html_content,
                   connection_message, requests, rrvars>>

\* ExtractCheck with the failure logged but sys.exit(1) left out.
ExtractCheckNoExit ==
    /\ prog = "generate_message" /\ pc = "extract_check"
    /\ stderr' = IF ~Truthy(extracted_info)
                 THEN PrintTo(stderr, <<"Failed to extract profile information from LLM.">>)
                 ELSE stderr
    /\ pc' = "compose"
    /\ UNCHANGED <<prog, argv, stdout, exit_code, escaped, mgvars, rrvars>>

\* Lines 109-111.
ExtractCheck ==
    /\ prog = "generate_message" /\ pc = "extract_check"
    /\ IF ~Truthy(extracted_info)
       THEN RaiseInMain(PrintTo(<<>>, <<"Failed to extract profile information from LLM.">>),
                        SysExit(1))
       ELSE /\ pc' = "compose"
            /\ UNCHANGED <<stderr, exit_code, escaped>>
    /\ UNCHANGED <<prog, argv, stdout, mgvars, rrvars>>

\* Lines 114, 86-87, 15-31: generate_connection_message posts the composition request.
ComposeCall ==
    /\ prog = "generate_message" /\ pc = "compose"
    /\ requests' = Append(requests,
                          Payload(message_prompt(PyStr(extracted_info), person_name),
                                  message_system_message(person_name)))
    /\ pc' = "compose_wait"
    /\ UNCHANGED <<prog, argv, exit_code, stdout, stderr, escaped, fs, profile_html_path,
                   person_name, html_content, extracted_info, connection_message, responses,
                   ollama_result, rrvars>>

\* Lines 31-45, 114: the composition call ends.
ComposeReturn ==
    /\ prog = "generate_message" /\ pc = "compose_wait"
    /\ \E reply \in Replies : \E o \in call_ollama(reply) :
         /\ responses' = Append(responses, reply)
         /\ ollama_result' = [ret |-> o.ret, exc |-> o.exc]
         /\ IF o.exc # NoExc
            THEN /\ RaiseInMain(o.err, o.exc)
                 /\ UNCHANGED connection_message
            ELSE /\ connection_message' = o.ret
                 /\ stderr' = stderr \o o.err
                 /\ pc' = "emit"
                 /\ UNCHANGED <<exit_code, escaped>>
    /\ UNCHANGED <<prog, argv, stdout, fs, profile_html_path, person_name, html_content,
                   extracted_info, requests, rrvars>>

\* Emit with the failure line printed without file=sys.stderr.
EmitFailureToStdout ==
    /\ prog = "generate_message" /\ pc = "emit"
    /\ IF Truthy(connection_message)
       THEN /\ stdout' = PrintTo(stdout, PyStr(connection_message))
            /\ exit_code' = 0
            /\ pc' = "done"
            /\ UNCHANGED <<stderr, escaped>>
       ELSE /\ stdout' = PrintTo(stdout, <<"Failed to generate connection message from LLM.">>)
            /\ RaiseInMain(<<>>, SysExit(1))
    /\ UNCHANGED <<prog, argv, mgvars, rrvars>>

\* Lines 115-120: the Emit stage; the script then ends, with exit code 0.
Emit ==
    /\ prog = "generate_message" /\ pc = "emit"
    /\ IF Truthy(connection_message)
       THEN /\ stdout' = PrintTo(stdout, PyStr(connection_message))
            /\ exit_code' = 0
            /\ pc' = "done"
            /\ UNCHANGED <<stderr, escaped>>
       ELSE /\ RaiseInMain(PrintTo(<<>>, <<"Failed to generate connection message from LLM.">>),
                            SysExit(1))
            /\ UNCHANGED stdout
    /\ UNCHANGED <<prog, argv, mgvars, rrvars>>

InitMessage ==
    /\ prog = "generate_message"
    /\ argv \in MessageArgvs
    /\ fs \in [Paths -> FileStates]

InitCommon ==
    /\ pc = "start" /\ exit_code = NoExit /\ stdout = <<>> /\ stderr = <<>>
    /\ escaped = NoExc
    /\ profile_html_path = "" /\ person_name = ""
    /\ html_content = Unset /\ extracted_info = Unset /\ connection_message = Unset
    /\ requests = <<>> /\ responses = <<>>
    /\ ollama_result = [ret |-> Unset, exc |-> NoExc]

\* ------------------------------------------------------- generate_graphs.py

AllCols == {"RunID", "Timestamp", "ConnectionsMade", "TotalConnectButtonsFound",
            "TotalProfilesScanned"}
Counts == 0..MaxCount
\* Timestamp cells: two in the format %Y%m%d_%H%M%S and one that is not.
TimestampCells == {"20240101_090000", "20240102_090000", "yesterday"}

Unread == [state |-> "unread"]
NoChart == [written |-> FALSE]

\* A row with the columns cols only.
Restrict(r, cols) == [c \in cols |-> r[c]]

\* The rows of a run report (the historical phase never reads them, the
\* timestamp is a fixed well-formed one).
ReportRows(cols) ==
    {Restrict(r, cols) :
        r \in [RunID : {"run1"}, Timestamp : {"20240101_090000"}, ConnectionsMade : Counts,
               TotalConnectButtonsFound : Counts, TotalProfilesScanned : Counts]}

\* The rows of the master ledger (its TotalConnectButtonsFound column is never
\* read: it holds one value).
MasterRows(cols) ==
    {Restrict(r, cols) :
        r \in [RunID : {"run1"}, Timestamp : TimestampCells, ConnectionsMade : Counts,
               TotalConnectButtonsFound : {0}, TotalProfilesScanned : Counts]}

RECURSIVE SeqsUpTo(_, _)
\* The sequences over S of length at most n.
SeqsUpTo(S, n) ==
    IF n = 0 THEN {<<>>}
    ELSE LET shorter == SeqsUpTo(S, n - 1)
         IN  shorter \cup {Append(q, x) : q \in {t \in shorter : Len(t) = n - 1}, x \in S}

\* The states report.csv can be in: missing, empty (no header), a header with
\* no row or one row, with all columns or one missing.
ReportFiles ==
    {[state |-> "missing"], [state |-> "empty"]}
    \cup UNION {{[state |-> "table", cols |-> cols, rows |-> rows] :
                    rows \in {<<>>} \cup {<<r>> : r \in ReportRows(cols)}} :
                cols \in {AllCols, AllCols \ {"RunID"}, AllCols \ {"ConnectionsMade"}}}

\* The states master_report.csv can be in.
MasterFiles ==
    {[state |-> "missing"], [state |-> "empty"]}
    \cup UNION {{[state |-> "table", cols |-> cols, rows |-> rows] :
                    rows \in SeqsUpTo(MasterRows(cols), MaxRows)} :
                cols \in {AllCols, AllCols \ {"Timestamp"}, AllCols \ {"ConnectionsMade"}}}

GraphsArgvs ==
    {<<"generate_graphs.py">>, <<"generate_graphs.py", "runs/r1">>,
     <<"generate_graphs.py", "runs/r1", "results">>,
     <<"generate_graphs.py", "runs/r1", "results", "extra">>}

\* os.path.join(dir, name)
Join(dir, name) == <<dir, "/", name>>

\* Python's max(a, b): b when b > a, else a.
Max(a, b) == IF b > a THEN b ELSE a

labels == <<"Successful Connects", "Unsuccessful/Skipped Connects",
            "Profiles without Connect Button">>

\* FilterLabels with the test val >= 0: no label is dropped.
FilterLabelsKeepZero(vals) ==
    LET idx == SelectSeq(<<1, 2, 3>>, LAMBDA i : vals[i] >= 0)
    IN  [k \in 1..Len(idx) |-> labels[idx[k]]]

\* [labels[i] for i, val in enumerate(values) if val > 0]
FilterLabels(vals) ==
    LET idx == SelectSeq(<<1, 2, 3>>, LAMBDA i : vals[i] > 0)
    IN  [k \in 1..Len(idx) |-> labels[idx[k]]]

\* [val for val in values if val > 0]
FilterValues(vals) == SelectSeq(vals, LAMBDA v : v > 0)

\* Lines 10-48: the try block of the per-run phase on what is at report.csv:
\* the exception raised (or NoExc), the locals, the chart saved and the lines
\* printed.
PerRunTry(f, current_run_dir) ==
    LET fail(cls, msg) ==
            [exc |-> Exc(cls, msg), values |-> <<>>, filtered_labels |-> <<>>,
             filtered_values |-> <<>>, chart |-> NoChart, out |-> <<>>]
    IN
    IF f.state = "missing" THEN fail("FileNotFoundError", <<"No such file or directory">>)
    ELSE IF f.state = "empty" THEN fail("EmptyDataError", <<"No columns to parse from file">>)
    ELSE IF Len(f.rows) = 0
    THEN fail("IndexError", <<"single positional indexer is out-of-bounds">>)
    ELSE IF "ConnectionsMade" \notin f.cols THEN fail("KeyError", <<"'ConnectionsMade'">>)
    ELSE IF "TotalConnectButtonsFound" \notin f.cols
    THEN fail("KeyError", <<"'TotalConnectButtonsFound'">>)
    ELSE IF "TotalProfilesScanned" \notin f.cols
    THEN fail("KeyError", <<"'TotalProfilesScanned'">>)
    ELSE
    LET current_data == f.rows[1]
        connections_made == current_data["ConnectionsMade"]
        total_connect_buttons_found == current_data["TotalConnectButtonsFound"]
        total_profiles_scanned == current_data["TotalProfilesScanned"]
        unsuccessful_connects == Max(0, total_connect_buttons_found - connections_made)
        profiles_without_connects == Max(0, total_profiles_scanned - total_connect_buttons_found)
        vals == <<connections_made, unsuccessful_connects, profiles_without_connects>>
        flabels == FilterLabels(vals)
        fvalues == FilterValues(vals)
        per_run_chart_path == Join(current_run_dir, "connections_per_run.png")
    IN
    IF fvalues = <<>>
    THEN [exc |-> NoExc, values |-> vals, filtered_labels |-> flabels,
          filtered_values |-> fvalues, chart |-> NoChart,
          out |-> PrintTo(<<>>, <<"No data to plot for per-run chart in ", current_run_dir,
                                  " (all values are zero).">>)]
    ELSE IF "RunID" \notin f.cols
    THEN [exc |-> Exc("KeyError", <<"'RunID'">>), values |-> vals,
          filtered_labels |-> flabels, filtered_values |-> fvalues, chart |-> NoChart,
          out |-> <<>>]
    ELSE [exc |-> NoExc, values |-> vals, filtered_labels |-> flabels,
          filtered_values |-> fvalues,
          chart |-> [written |-> TRUE, labels |-> flabels, heights |-> fvalues,
                     title |-> <<"Connection Statistics for Run: ", current_data["RunID"]>>],
          out |-> PrintTo(<<>>, <<"Per-run chart saved to: ">> \o per_run_chart_path)]

\* PerRunExcept without the `except Exception` clause.
PerRunExceptOnlyNotFound(e, current_run_csv_path) ==
    IF e = NoExc THEN [out |-> <<>>, escaped |-> NoExc, returned |-> FALSE]
    ELSE IF IsInstance(e, "FileNotFoundError")
    THEN [out |-> PrintTo(<<>>, <<"Current run CSV not found at ">> \o current_run_csv_path
                                 \o <<". Skipping per-run chart.">>),
          escaped |-> NoExc, returned |-> FALSE]
    ELSE [out |-> <<>>, escaped |-> e, returned |-> FALSE]

\* PerRunExcept with a `return` ending the FileNotFoundError clause.
PerRunExceptReturns(e, current_run_csv_path) ==
    IF e = NoExc THEN [out |-> <<>>, escaped |-> NoExc, returned |-> FALSE]
    ELSE IF IsInstance(e, "FileNotFoundError")
    THEN [out |-> PrintTo(<<>>, <<"Current run CSV not found at ">> \o current_run_csv_path
                                 \o <<". Skipping per-run chart.">>),
          escaped |-> NoExc, returned |-> TRUE]
    ELSE IF IsInstance(e, "Exception")
    THEN [out |-> PrintTo(<<>>, <<"Error generating per-run chart from ">>
                                 \o current_run_csv_path \o <<": ">> \o e.msg),
          escaped |-> NoExc, returned |-> FALSE]
    ELSE [out |-> <<>>, escaped |-> e, returned |-> FALSE]

\* Lines 50-54: the except clauses of the per-run phase: the line printed, the
\* exception that leaves generate_graphs (NoExc when one clause matched) and
\* whether the clause returns from generate_graphs (none does).
PerRunExcept(e, current_run_csv_path) ==
    IF e = NoExc THEN [out |-> <<>>, escaped |-> NoExc, returned |-> FALSE]
    ELSE IF IsInstance(e, "FileNotFoundError")
    THEN [out |-> PrintTo(<<>>, <<"Current run CSV not found at ">> \o current_run_csv_path
                                 \o <<". Skipping per-run chart.">>),
          escaped |-> NoExc, returned |-> FALSE]
    ELSE IF IsInstance(e, "Exception")
    THEN [out |-> PrintTo(<<>>, <<"Error generating per-run chart from ">>
                                 \o current_run_csv_path \o <<": ">> \o e.msg),
          escaped |-> NoExc, returned |-> FALSE]
    ELSE [out |-> <<>>, escaped |-> e, returned |-> FALSE]

\* pd.to_datetime(cell, format='%Y%m%d_%H%M%S'): the day's number, 0 when the
\* cell is not in the format (a ValueError).
ToDatetime(cell) ==
    CASE cell = "20240101_090000" -> 1
      [] cell = "20240102_090000" -> 2
      [] OTHER -> 0

RECURSIVE InsertByTimestamp(_, _)
\* rows, sorted by Timestamp, with r put after the rows not later than it.
InsertByTimestamp(rows, r) ==
    IF rows = <<>> THEN <<r>>
    ELSE IF rows[Len(rows)].Timestamp <= r.Timestamp THEN Append(rows, r)
    ELSE Append(InsertByTimestamp(SubSeq(rows, 1, Len(rows) - 1), r), rows[Len(rows)])

RECURSIVE SortByTimestamp(_)
\* master_df.sort_values('Timestamp').reset_index(drop=True)
SortByTimestamp(rows) ==
    IF rows = <<>> THEN <<>>
    ELSE InsertByTimestamp(SortByTimestamp(SubSeq(rows, 1, Len(rows) - 1)), rows[Len(rows)])

\* TooFewRows with the bound off by one.
TooFewRowsOffByOne(rows) == Len(rows) < 0

\* Line 71: the ledger has too few rows for a chart.
TooFewRows(rows) == Len(rows) < 1

\* Lines 59-91: the try block of the historical phase on what is at
\* master_report.csv.
HistoricalTry(f, results_dir) ==
    LET fail(cls, msg) == [exc |-> Exc(cls, msg), chart |-> NoChart, out |-> <<>>] IN
    IF f.state = "missing" THEN fail("FileNotFoundError", <<"No such file or directory">>)
    ELSE IF f.state = "empty" THEN fail("EmptyDataError", <<"No columns to parse from file">>)
    ELSE IF "Timestamp" \notin f.cols THEN fail("KeyError", <<"'Timestamp'">>)
    ELSE IF \E i \in 1..Len(f.rows) : ToDatetime(f.rows[i]["Timestamp"]) = 0
    THEN fail("ValueError", <<"time data doesn't match format">>)
    ELSE IF "TotalProfilesScanned" \notin f.cols
    THEN fail("KeyError", <<"'TotalProfilesScanned'">>)
    ELSE IF "ConnectionsMade" \notin f.cols THEN fail("KeyError", <<"'ConnectionsMade'">>)
    ELSE
    LET parsed == [i \in 1..Len(f.rows) |->
                      [Timestamp |-> ToDatetime(f.rows[i]["Timestamp"]),
                       ConnectionsMade |-> f.rows[i]["ConnectionsMade"],
                       TotalProfilesScanned |-> f.rows[i]["TotalProfilesScanned"]]]
        sorted == SortByTimestamp(parsed)
        df == [i \in 1..Len(sorted) |->
                  [Timestamp |-> sorted[i].Timestamp,
                   ConnectionsMade |-> sorted[i].ConnectionsMade,
                   OtherInteractions |->
                       Max(0, sorted[i].TotalProfilesScanned - sorted[i].ConnectionsMade)]]
        all_runs_chart_path == Join(results_dir, "historical_connections.png")
    IN
    IF TooFewRows(df)
    THEN [exc |-> NoExc, chart |-> NoChart,
          out |-> PrintTo(<<>>, <<"Not enough data in master CSV (0 rows) for all-runs chart. Skipping.">>)]
    ELSE [exc |-> NoExc,
          chart |-> [written |-> TRUE, points |-> df],
          out |-> PrintTo(<<>>, <<"Historical chart saved to: ">> \o all_runs_chart_path)]

\* Lines 93-98: the except clauses of the historical phase.
HistoricalExcept(e, master_csv_path) ==
    IF e = NoExc THEN [out |-> <<>>, escaped |-> NoExc]
    ELSE IF IsInstance(e, "FileNotFoundError")
    THEN [out |-> PrintTo(<<>>, <<"Master CSV not found at ">> \o master_csv_path
                                 \o <<". Skipping all-runs chart (first run?).">>),
          escaped |-> NoExc]
    ELSE IF IsInstance(e, "EmptyDataError")
    THEN [out |-> PrintTo(<<>>, <<"Master CSV at ">> \o master_csv_path
                                 \o <<" is empty. Skipping all-runs chart.">>),
          escaped |-> NoExc]
    ELSE IF IsInstance(e, "Exception")
    THEN [out |-> PrintTo(<<>>, <<"Error generating all-runs chart from ">>
                                 \o master_csv_path \o <<": ">> \o e.msg),
          escaped |-> NoExc]
    ELSE [out |-> <<>>, escaped |-> e]

\* Lines 100-108: the argument check.
GraphsMain ==
    /\ prog = "generate_graphs" /\ pc = "start"
    /\ IF Len(argv) # 3
       THEN /\ stdout' = PrintTo(stdout,
                      <<"Usage: python generate_graphs.py <current_run_dir> <results_dir>">>)
            /\ exit_code' = 1
            /\ pc' = "done"
       ELSE /\ pc' = "per_run"
            /\ UNCHANGED <<stdout, exit_code>>
    /\ UNCHANGED <<prog, argv, stderr, escaped, mgvars, rrvars>>

\* Where the per-run phase leaves the process: an exception no clause caught
\* ends it (a traceback, exit code 1), a clause that returns ends it (exit
\* code 0), anything else goes on to the historical phase.
AfterPerRun(h) == IF h.escaped # NoExc \/ h.returned THEN "done" ELSE "historical"

\* Lines 8-54: the per-run phase, on whatever is at report.csv.
PerRunPhase ==
    /\ prog = "generate_graphs" /\ pc = "per_run"
    /\ \E f \in ReportFiles :
         LET current_run_dir == argv[2]
             t == PerRunTry(f, current_run_dir)
             h == PerRunExcept(t.exc, Join(current_run_dir, "report.csv"))
         IN  /\ current_run_df' = f
             /\ values' = t.values
             /\ filtered_labels' = t.filtered_labels
             /\ filtered_values' = t.filtered_values
             /\ per_run_chart' = t.chart
             /\ stdout' = stdout \o t.out \o h.out
             /\ escaped' = h.escaped
             /\ pc' = AfterPerRun(h)
             /\ exit_code' = IF h.escaped # NoExc THEN 1
                             ELSE IF h.returned THEN 0 ELSE exit_code
    /\ UNCHANGED <<prog, argv, stderr, mgvars, master_df, historical_chart>>

\* Lines 57-98: the historical phase, on whatever is at master_report.csv; the
\* script then ends, with exit code 0.
HistoricalPhase ==
    /\ prog = "generate_graphs" /\ pc = "historical"
    /\ \E f \in MasterFiles :
         LET results_dir == argv[3]
             t == HistoricalTry(f, results_dir)
             h == HistoricalExcept(t.exc, Join(results_dir, "master_report.csv"))
         IN  /\ master_df' = f
             /\ historical_chart' = t.chart
             /\ stdout' = stdout \o t.out \o h.out
             /\ escaped' = h.escaped
             /\ exit_code' = IF h.escaped # NoExc THEN 1 ELSE 0
    /\ pc' = "done"
    /\ UNCHANGED <<prog, argv, stderr, mgvars, current_run_df, values, filtered_labels,
                   filtered_values, per_run_chart>>

InitGraphs ==
    /\ prog = "generate_graphs"
    /\ argv \in GraphsArgvs
    /\ fs = [p \in Paths |-> [state |-> "missing"]]

\* ------------------------------------------------------------ specification

Init ==
    /\ InitCommon
    /\ current_run_df = Unread /\ master_df = Unread
    /\ values = <<>> /\ filtered_labels = <<>> /\ filtered_values = <<>>
    /\ per_run_chart = NoChart /\ historical_chart = NoChart
    /\ (InitMessage \/ InitGraphs)

Next ==
    \/ MainArgs
    \/ Load
    \/ ExtractCall
    \/ ExtractReturn
    \/ ExtractCheck
    \/ ComposeCall
    \/ ComposeReturn
    \/ Emit
    \/ GraphsMain
    \/ PerRunPhase
    \/ HistoricalPhase

Spec == Init /\ [][Next]_vars

\* ------------------------------------------------------------------ claims

IsMessage == prog = "generate_message"
IsGraphs == prog = "generate_graphs"
Done == pc = "done"

IsExtractRequest(req) ==
    req.prompt[1] = "Extract professional information from the following LinkedIn profile HTML:"
IsComposeRequest(req) == req.prompt[1] = "Generate a LinkedIn connection message for "
ComposeIssued == \E i \in 1..Len(requests) : IsComposeRequest(requests[i])

\* A failed generation call, as the endpoint contract defines it: a timeout or
\* transport error, a non-success status, a body that is no JSON object, or an
\* object without the 'response' field.
ReplyFailed(r) ==
    \/ r.kind # "http"
    \/ r.status < 200 \/ r.status > 299
    \/ r.body.shape # "object"
    \/ "response" \notin DOMAIN r.body.obj

\* The reply carries a non-empty text.
ReplyHasText(r) ==
    /\ ~ReplyFailed(r)
    /\ r.body.obj.response.t = "str"
    /\ r.body.obj.response.s # <<>>

ReplyText(r) == r.body.obj.response.s

InStream(stream, token) == \E i \in 1..Len(stream) : stream[i] = token

\* C1: the composition request is only ever issued as the second request, after
\* the extraction call returned a text; once the extraction call has failed the
\* composition request is never issued and the process ends with exit code 1.
C1_ComposeOnlyAfterExtraction ==
    IsMessage =>
        /\ \A i \in 1..Len(requests) :
              IsComposeRequest(requests[i]) =>
                  /\ i = 2
                  /\ IsExtractRequest(requests[1])
                  /\ Len(responses) >= 1
                  /\ ReplyHasText(responses[1])
        /\ (Len(responses) >= 1 /\ ReplyFailed(responses[1])) =>
              /\ ~ComposeIssued
              /\ Len(requests) = 1
              /\ Done => exit_code = 1

\* C1 witness: the extraction call timed out and the process has ended.
C1_Witness ==
    /\ IsMessage /\ Done
    /\ Len(responses) = 1 /\ responses[1].kind = "timeout"
    /\ exit_code = 1 /\ ~ComposeIssued

\* The run got a non-empty text from both calls, on an existing profile file.
FullSuccess ==
    /\ Len(argv) >= 3
    /\ fs[argv[2]].state # "missing"
    /\ Len(responses) = 2
    /\ ReplyHasText(responses[1])
    /\ ReplyHasText(responses[2])

\* C2: the process ends with exit code 0 exactly when the profile file exists
\* and both calls returned a non-empty text, and with exit code 1 otherwise.
C2_ExitCodes ==
    (IsMessage /\ Done) =>
        /\ exit_code \in {0, 1}
        /\ exit_code = 0 <=> FullSuccess

\* C2 witness: a run that ended with exit code 0, and the file of the other
\* path missing.
C2_Witness ==
    /\ IsMessage /\ Done /\ exit_code = 0
    /\ \E p \in Paths : fs[p].state = "missing"

\* C3, as stated: at the end standard output is exactly the text of the second
\* response on success, and empty on failure.
C3_StdoutIsExactlyResponse ==
    (IsMessage /\ Done) =>
        stdout = IF exit_code = 0 THEN ReplyText(responses[2]) ELSE <<>>

\* C3, amended: on success standard output is the text of the second response,
\* unmodified, followed by one newline and nothing else; before that and on
\* every failure standard output is empty, and a failed run has written its
\* diagnostic to the error stream.
C3_StdoutIsResponseLine ==
    IsMessage =>
        /\ (Done /\ exit_code = 0) =>
              /\ Len(responses) = 2
              /\ ReplyHasText(responses[2])
              /\ stdout = ReplyText(responses[2]) \o <<NL>>
        /\ ~(Done /\ exit_code = 0) => stdout = <<>>
        /\ (Done /\ exit_code # 0) => stderr # <<>>

\* C3 witness: a successful run whose message is one character long.
C3_Witness ==
    /\ IsMessage /\ Done /\ exit_code = 0
    /\ Len(ReplyText(responses[2])) = 1
    /\ Len(stdout) = 2

\* C4: with a profile path that does not exist no generation request is ever
\* issued, and the process ends with exit code 1 and that path on the error
\* stream.
C4_MissingFile ==
    (IsMessage /\ Len(argv) >= 3 /\ fs[argv[2]].state = "missing") =>
        /\ requests = <<>>
        /\ Done => (exit_code = 1 /\ InStream(stderr, argv[2]))

\* C4 witness: the run on the missing path b.html has ended, the file of the
\* other path being there.
C4_Witness ==
    /\ IsMessage /\ Done /\ Len(argv) >= 3
    /\ argv[2] = "b.html"
    /\ fs["b.html"].state = "missing" /\ fs["a.html"].state = "file"
    /\ exit_code = 1

\* C5: no exception leaves generate_graphs, and the process ends with exit
\* code 1 exactly when the argument count is not two (sys.argv of length 3),
\* and with exit code 0 otherwise.
C5_NoErrorEscapes ==
    IsGraphs =>
        /\ escaped = NoExc
        /\ Done => /\ exit_code \in {0, 1}
                   /\ exit_code = 1 <=> Len(argv) # 3

\* C5 witness: both phases failed inside (a report with no row, a ledger with
\* no Timestamp column) and the process ended with exit code 0.
C5_Witness ==
    /\ IsGraphs /\ Done /\ exit_code = 0
    /\ current_run_df.state = "table" /\ current_run_df.rows = <<>>
    /\ master_df.state = "table" /\ "Timestamp" \notin master_df.cols
    /\ Len(master_df.rows) >= 1

\* The report read has a row with the three counts.
ReportHasCounts ==
    /\ current_run_df.state = "table"
    /\ Len(current_run_df.rows) >= 1
    /\ {"ConnectionsMade", "TotalConnectButtonsFound", "TotalProfilesScanned"}
          \subseteq current_run_df.cols

\* C6: after the per-run phase on a report with non-negative counts, the
\* derived counts are the differences clamped at 0; a category of value 0 is
\* not among the chart's labels and each plotted label has the value of its
\* own category; with all three values 0 no per-run chart is written.
C6_PerRunCategories ==
    (IsGraphs /\ ReportHasCounts) =>
        LET row == current_run_df.rows[1]
            made == row["ConnectionsMade"]
            found == row["TotalConnectButtonsFound"]
            scanned == row["TotalProfilesScanned"]
            unsuccessful == IF found - made < 0 THEN 0 ELSE found - made
            withoutButton == IF scanned - found < 0 THEN 0 ELSE scanned - found
            valueOf(label) ==
                CASE label = "Successful Connects" -> made
                  [] label = "Unsuccessful/Skipped Connects" -> unsuccessful
                  [] label = "Profiles without Connect Button" -> withoutButton
        IN  /\ values = <<made, unsuccessful, withoutButton>>
            /\ values[2] >= 0 /\ values[3] >= 0
            /\ per_run_chart.written =>
                  /\ Len(per_run_chart.labels) = Len(per_run_chart.heights)
                  /\ \A i \in 1..Len(per_run_chart.labels) :
                        /\ valueOf(per_run_chart.labels[i]) # 0
                        /\ per_run_chart.heights[i] = valueOf(per_run_chart.labels[i])
            /\ (made = 0 /\ unsuccessful = 0 /\ withoutButton = 0) => ~per_run_chart.written

\* C6 witness: a chart written for a report with more connections made than
\* buttons found (the difference clamped to 0 and its category dropped).
C6_Witness ==
    /\ IsGraphs /\ ReportHasCounts
    /\ current_run_df.rows[1]["ConnectionsMade"] > current_run_df.rows[1]["TotalConnectButtonsFound"]
    /\ per_run_chart.written
    /\ Len(per_run_chart.labels) < 3

\* The ledger read has no row: an empty file or a header with no row.
LedgerHasNoRow ==
    \/ master_df.state = "empty"
    \/ master_df.state = "table" /\ master_df.rows = <<>>

\* C7: with a ledger of zero rows the historical chart is not written and no
\* exception escapes; the chart is written only for a ledger read with at
\* least one row.
C7_EmptyLedgerSkipped ==
    (IsGraphs /\ Done) =>
        /\ LedgerHasNoRow => (~historical_chart.written /\ escaped = NoExc /\ exit_code = 0)
        /\ historical_chart.written =>
              (master_df.state = "table" /\ Len(master_df.rows) >= 1)

\* C7 witness: the run ended on a ledger that is a full header with no row.
C7_Witness ==
    /\ IsGraphs /\ Done
    /\ master_df.state = "table" /\ master_df.cols = AllCols /\ master_df.rows = <<>>
    /\ ~historical_chart.written

\* C8: a message emitted to standard output has at most 200 characters.
C8_MessageWithinLimit ==
    (IsMessage /\ Done /\ exit_code = 0) => Len(stdout) - 1 <= MessageLimit

\* The ledger read is valid: every column the historical phase reads, at least
\* one row, every timestamp in the format.
LedgerValid ==
    /\ master_df.state = "table"
    /\ {"Timestamp", "ConnectionsMade", "TotalProfilesScanned"} \subseteq master_df.cols
    /\ Len(master_df.rows) >= 1
    /\ \A i \in 1..Len(master_df.rows) :
          master_df.rows[i]["Timestamp"] \in {"20240101_090000", "20240102_090000"}

\* C9: a run with two arguments never ends before the master ledger was read,
\* whatever the per-run phase did, and with a valid ledger it ends with the
\* historical chart written.
C9_HistoricalAlwaysAttempted ==
    (IsGraphs /\ Done /\ Len(argv) = 3) =>
        /\ current_run_df # Unread
        /\ master_df # Unread
        /\ LedgerValid => historical_chart.written

\* C9 witness: report.csv was missing and the historical chart was written.
C9_Witness ==
    /\ IsGraphs /\ Done
    /\ current_run_df.state = "missing"
    /\ ~per_run_chart.written
    /\ historical_chart.written

\* C10: on every failed reply call_ollama returns no text without raising, and
\* the process ends with exit code 1 and nothing on standard output.
C10_FailuresCollapse ==
    (IsMessage /\ Len(responses) >= 1 /\ ReplyFailed(responses[Len(responses)])) =>
        /\ ollama_result = [ret |-> None, exc |-> NoExc]
        /\ Done => (exit_code = 1 /\ stdout = <<>>)

=============================================================================
